---- MODULE Spec2Model ----
(***************************************************************************)
(* Task Manager of task-runner: runScript / stopScript / listScripts /     *)
(* getStatus over the module-level Map runningScripts, the child processes *)
(* it spawns, their close and data callbacks and the setTimeout evictions. *)
(* The repository holds two versions of the task manager; Spec models the  *)
(* first (platform-aware stopScript, fire-and-forget oneTime), SpecV2 the   *)
(* second (plain process.kill, oneTime awaiting the close event).          *)
(* Time is in milliseconds.  Each action is one run-to-completion callback *)
(* of the Node.js event loop.                                              *)
(***************************************************************************)
EXTENDS Integers, Sequences, FiniteSets, Bags, TLC

VARIABLES
  platform,        \* process.platform: "posix" or "win32"
  now,             \* the wall clock, new Date()
  nextId,          \* number of randomUUID() values issued so far, plus 1
  runningScripts,  \* the Map, as the sequence of its scriptInfo values in insertion order
  timers,          \* bag of pending setTimeout evictions [id, kind, deadline]
  procs,           \* spawned child processes by task id
  stopCalls,       \* bag of stopScript calls suspended at the await of taskkill
  response,        \* the result a call settled with in the step just taken, if any
  idleTicks        \* number of TickIdle steps taken

vars == <<platform, now, nextId, runningScripts, timers, procs, stopCalls, response, idleTicks>>

\* ------------------------------------------------------------------ bounds
MaxTasks == 2
MaxPendingStops == 1
MaxChunks == 1
MaxIdleTicks == 1
TickStep == 2500
MaxArgsLen == 2

\* ------------------------------------------------------- program constants
CompletedGrace == 60000
StoppedGrace == 5000
Null == -1

Platforms == {"posix", "win32"}
\* a JavaScript string is the sequence of its characters
ScriptPaths == {<<"e", ".", "j", "s">>}
ArgLists == {<< <<"h", "i">> >>}
\* paths with each suffix runScript tells apart, and with none
DispatchPaths ==
  ScriptPaths \cup {<<"r", ".", "b", "a", "t">>, <<"r", ".", "s", "h">>, <<"j", "s">>}
\* the JavaScript values a caller passes as args: lists, and a value that is
\* no list (a number: it has no join method and is not iterable)
JsArray(items) == [type |-> "array", items |-> items]
JsNumber == [type |-> "number"]
ArgValues == {JsArray(items) : items \in ArgLists} \cup {JsNumber}
ExitCodes == {0, 42}
Chunks == {<<"o", "k">>}
Streams == {"stdout", "stderr"}
\* spawn returns a running child, throws, or returns a child that emits 'error'
\* on the next tick (ENOENT, EACCES: no such executable, no permission)
SpawnOutcomes == {"ok", "throws", "emitsError"}
TaskkillCodes == {0, 128, 1}

CandidateIds == 1..MaxTasks

\* ---------------------------------------------------------------- helpers
\* Date.prototype.toISOString: a string that determines the instant
ToISOString(t) == <<"iso", t>>
NoTime == <<"null">>

\* childProcess.pid as the OS assigns it: distinct per spawned process
PidOf(id) == 1233 + id

Has(id) == \E i \in 1..Len(runningScripts) : runningScripts[i].id = id
Get(id) == runningScripts[CHOOSE i \in 1..Len(runningScripts) : runningScripts[i].id = id]
MapDelete(tbl, id) == SelectSeq(tbl, LAMBDA s : s.id /= id)
\* mutant of MapUpdate: the write reaches every entry, not only the one of id
MapUpdateAll(tbl, id, info) ==
  [i \in 1..Len(tbl) |-> info]

MapUpdate(tbl, id, info) ==
  [i \in 1..Len(tbl) |-> IF tbl[i].id = id THEN info ELSE tbl[i]]

Min(S) == CHOOSE x \in S : \A y \in S : x <= y

TimerDeadlines == {t.deadline : t \in BagToSet(timers)}
AddTimer(bag, id, kind, delay) ==
  bag (+) SetToBag({[id |-> id, kind |-> kind, deadline |-> now + delay]})

\* a child process leaves procs once its close event has been dispatched
Alive(id) == id \in DOMAIN procs /\ procs[id].state = "alive"
Exited(id) == id \in DOMAIN procs /\ procs[id].state = "exited"
Reap(ps, id) == [x \in DOMAIN ps \ {id} |-> ps[x]]

NoResponse == [op |-> "none"]

\* --------------------------------------------------------------- runScript
\* const scriptInfo = {...}; stdout and stderr are the arrays the data
\* listeners push to
NewScriptInfo(id, scriptPath, args) ==
  [id |-> id, scriptPath |-> scriptPath, args |-> args, pid |-> PidOf(id),
   startTime |-> now, status |-> "running", workingDir |-> "cwd",
   stdout |-> <<>>, stderr |-> <<>>, mode |-> "tracked",
   exitCode |-> Null, endTime |-> Null, duration |-> Null]

\* String.prototype.endsWith
EndsWith(str, suffix) ==
  /\ Len(suffix) <= Len(str)
  /\ SubSeq(str, Len(str) - Len(suffix) + 1, Len(str)) = suffix

DotJs == <<".", "j", "s">>
DotBat == <<".", "b", "a", "t">>
NodeCommand == <<"n", "o", "d", "e">>
CmdCommand == <<"c", "m", "d">>
SlashC == <<"/", "c">>

\* let command, commandArgs: chosen by the script path's suffix
Command(scriptPath) ==
  IF EndsWith(scriptPath, DotJs) THEN NodeCommand
  ELSE IF EndsWith(scriptPath, DotBat) THEN CmdCommand
  ELSE scriptPath

CommandArgs(scriptPath, items) ==
  IF EndsWith(scriptPath, DotJs) THEN <<scriptPath>> \o items
  ELSE IF EndsWith(scriptPath, DotBat) THEN <<SlashC, scriptPath>> \o items
  ELSE items

\* the spawned child and what its listeners' closure holds
NewProc(id, scriptPath, args, oneTime) ==
  [state |-> "alive", pid |-> PidOf(id),
   command |-> Command(scriptPath),
   commandArgs |-> CommandArgs(scriptPath, args.items),
   detached |-> oneTime,
   mode |-> IF oneTime THEN "oneTime" ELSE "tracked",
   code |-> Null, kills |-> 0,
   scriptPath |-> scriptPath, args |-> args, startTime |-> now,
   stdout |-> <<>>, stderr |-> <<>>]

RunResult(id, mode, scriptPath, args) ==
  [op |-> "runScript", success |-> TRUE, id |-> id, mode |-> mode,
   pid |-> PidOf(id), scriptPath |-> scriptPath, args |-> args,
   startTime |-> ToISOString(now)]

RunFailure ==
  [op |-> "runScript", success |-> FALSE, error |-> "spawn error"]

\* the promise of the async function rejects: args.join is evaluated before
\* the try block is entered
Rejected ==
  [op |-> "rejected", of |-> "runScript", error |-> "args.join is not a function"]

\* no listener is registered for the child's 'error' event: emitting it throws,
\* the exception is uncaught and the server process ends before the caller is
\* answered.  The Map, the timers, the suspended calls and the listeners of
\* the children are gone; a restarted server starts from an empty Map
Crashed == [op |-> "crash", error |-> "Unhandled 'error' event"]

UncaughtException ==
  /\ response' = Crashed
  /\ runningScripts' = <<>>
  /\ procs' = <<>>
  /\ timers' = EmptyBag
  /\ stopCalls' = EmptyBag

\* mutant of RunTracked: the promise resolves but runningScripts.set is missing
RunTrackedNotStored(id, scriptPath, args) ==
  /\ procs' = procs @@ (id :> NewProc(id, scriptPath, args, FALSE))
  /\ runningScripts' = runningScripts
  /\ response' = RunResult(id, "tracked", scriptPath, args)

\* the tracked branch: listeners wired, scriptInfo stored, promise resolved
RunTracked(id, scriptPath, args) ==
  /\ procs' = procs @@ (id :> NewProc(id, scriptPath, args, FALSE))
  /\ runningScripts' = Append(runningScripts, NewScriptInfo(id, scriptPath, args))
  /\ response' = RunResult(id, "tracked", scriptPath, args)

\* mutant of RunScript: the oneTime branch lacks its return and runs on into
\* the tracked branch
RunScriptFallsThrough(scriptPath, args, oneTime, outcome) ==
  /\ nextId <= MaxTasks
  /\ IF args.type /= "array"
     THEN /\ response' = Rejected
          /\ UNCHANGED <<nextId, runningScripts, procs, timers, stopCalls>>
     ELSE /\ nextId' = nextId + 1
          /\ IF outcome = "throws"
             THEN /\ response' = RunFailure
                  /\ UNCHANGED <<runningScripts, procs, timers, stopCalls>>
             ELSE IF outcome = "emitsError"
             THEN UncaughtException
             ELSE /\ procs' = procs @@ (nextId :> NewProc(nextId, scriptPath, args, oneTime))
                  /\ runningScripts' = Append(runningScripts,
                                              NewScriptInfo(nextId, scriptPath, args))
                  /\ response' = RunResult(nextId, IF oneTime THEN "oneTime" ELSE "tracked",
                                           scriptPath, args)
                  /\ UNCHANGED <<timers, stopCalls>>
  /\ UNCHANGED <<platform, now, idleTicks>>

\* mutant of RunScript: the oneTime branch resolves nothing at the spawn
RunScriptOneTimePending(scriptPath, args, oneTime, outcome) ==
  /\ nextId <= MaxTasks
  /\ IF args.type /= "array"
     THEN /\ response' = Rejected
          /\ UNCHANGED <<nextId, runningScripts, procs, timers, stopCalls>>
     ELSE /\ nextId' = nextId + 1
          /\ IF outcome = "throws"
             THEN /\ response' = RunFailure
                  /\ UNCHANGED <<runningScripts, procs, timers, stopCalls>>
             ELSE IF outcome = "emitsError"
             THEN UncaughtException
             ELSE IF oneTime
             THEN /\ procs' = procs @@ (nextId :> NewProc(nextId, scriptPath, args, TRUE))
                  /\ response' = NoResponse
                  /\ UNCHANGED <<runningScripts, timers, stopCalls>>
             ELSE /\ RunTracked(nextId, scriptPath, args)
                  /\ UNCHANGED <<timers, stopCalls>>
  /\ UNCHANGED <<platform, now, idleTicks>>

\* runScript.  args.join(' ') is evaluated before the try block; the id is
\* drawn inside it, before the spawn
RunScript(scriptPath, args, oneTime, outcome) ==
  /\ nextId <= MaxTasks
  /\ IF args.type /= "array"
     THEN /\ response' = Rejected
          /\ UNCHANGED <<nextId, runningScripts, procs, timers, stopCalls>>
     ELSE /\ nextId' = nextId + 1
          /\ IF outcome = "throws"
             THEN /\ response' = RunFailure
                  /\ UNCHANGED <<runningScripts, procs, timers, stopCalls>>
             ELSE IF outcome = "emitsError"
             THEN UncaughtException
             ELSE IF oneTime
             THEN /\ procs' = procs @@ (nextId :> NewProc(nextId, scriptPath, args, TRUE))
                  /\ response' = RunResult(nextId, "oneTime", scriptPath, args)
                  /\ UNCHANGED <<runningScripts, timers, stopCalls>>
             ELSE /\ RunTracked(nextId, scriptPath, args)
                  /\ UNCHANGED <<timers, stopCalls>>
  /\ UNCHANGED <<platform, now, idleTicks>>

\* -------------------------------------------------------------- stopScript
\* the results of stopScript; `of` is the id the answered call was made with
NotFound(id) ==
  [op |-> "stopScript", of |-> id, success |-> FALSE, error |-> "Script not found"]

NotRunning(id, status) ==
  [op |-> "stopScript", of |-> id, success |-> FALSE, error |-> "Script not running",
   message |-> <<"Script is in", status, "state">>]

StopResult(id, pid, startTime) ==
  [op |-> "stopScript", of |-> id, success |-> TRUE, id |-> id, pid |-> pid,
   stopTime |-> ToISOString(now), duration |-> now - startTime]

\* mutant of Stopped: a status the status counters do not know
StoppedAsKilled(info) ==
  [info EXCEPT !.status = "killed", !.endTime = now,
               !.duration = now - info.startTime]

\* scriptInfo as stopScript leaves it
Stopped(info) ==
  [info EXCEPT !.status = "stopped", !.endTime = now,
               !.duration = now - info.startTime]

\* a call suspended at its await holds its scriptInfo reference; pid and
\* startTime of a scriptInfo are never reassigned
AwaitingCall(info) == [id |-> info.id, pid |-> info.pid, startTime |-> info.startTime]

\* process.kill(pid, 'SIGTERM') reaches a live process and throws ESRCH
\* otherwise; kills counts the signals a process has received
Signal(ps, id) == IF Alive(id) THEN [ps EXCEPT ![id].kills = @ + 1] ELSE ps

\* mutant of StopCommit: the setTimeout of the 5s eviction is missing
StopCommitNoTimer(id, pid, startTime) ==
  /\ runningScripts' = IF Has(id)
                       THEN MapUpdate(runningScripts, id, Stopped(Get(id)))
                       ELSE runningScripts
  /\ timers' = timers
  /\ response' = StopResult(id, pid, startTime)

\* the status update, the 5s eviction and the result that end stopScript
StopCommit(id, pid, startTime) ==
  /\ runningScripts' = IF Has(id)
                       THEN MapUpdate(runningScripts, id, Stopped(Get(id)))
                       ELSE runningScripts
  /\ timers' = AddTimer(timers, id, "stopped", StoppedGrace)
  /\ response' = StopResult(id, pid, startTime)

\* mutant of StopScript: the has(id) check is missing, so a missing id is
\* stopped like a running task
StopScriptNoLookup(id) ==
  /\ platform /= "win32"
  /\ IF Has(id) /\ Get(id).status /= "running"
     THEN /\ response' = NotRunning(id, Get(id).status)
          /\ UNCHANGED <<runningScripts, timers, procs>>
     ELSE /\ procs' = Signal(procs, id)
          /\ StopCommit(id, PidOf(id), now)
  /\ UNCHANGED <<platform, now, idleTicks, nextId, stopCalls>>

\* mutant of StopScript: the status check is missing
StopScriptNoStatusCheck(id) ==
  /\ platform /= "win32"
  /\ IF ~Has(id)
     THEN /\ response' = NotFound(id)
          /\ UNCHANGED <<runningScripts, timers, procs>>
     ELSE /\ procs' = Signal(procs, id)
          /\ StopCommit(id, Get(id).pid, Get(id).startTime)
  /\ UNCHANGED <<platform, now, idleTicks, nextId, stopCalls>>

\* stopScript, on a platform other than win32: no await between check and write
StopScript(id) ==
  /\ platform /= "win32"
  /\ IF ~Has(id)
     THEN /\ response' = NotFound(id)
          /\ UNCHANGED <<runningScripts, timers, procs>>
     ELSE IF Get(id).status /= "running"
     THEN /\ response' = NotRunning(id, Get(id).status)
          /\ UNCHANGED <<runningScripts, timers, procs>>
     ELSE /\ procs' = Signal(procs, id)
          /\ StopCommit(id, Get(id).pid, Get(id).startTime)
  /\ UNCHANGED <<platform, now, idleTicks, nextId, stopCalls>>

\* stopScript on win32, up to the await of the taskkill process
StopScriptBegin(id) ==
  /\ platform = "win32"
  /\ IF ~Has(id)
     THEN /\ response' = NotFound(id)
          /\ UNCHANGED stopCalls
     ELSE IF Get(id).status /= "running"
     THEN /\ response' = NotRunning(id, Get(id).status)
          /\ UNCHANGED stopCalls
     ELSE /\ BagCardinality(stopCalls) < MaxPendingStops
          /\ stopCalls' = stopCalls (+) SetToBag({AwaitingCall(Get(id))})
          /\ response' = NoResponse
  /\ UNCHANGED <<platform, now, idleTicks, nextId, runningScripts, timers, procs>>

\* taskkill closes with `code` and stopScript runs on from its await.
\* 0: the process tree was killed; 128: no such process; other codes reject
\* the awaited promise, which the inner catch logs
StopScriptResume(call, code) ==
  /\ BagIn(call, stopCalls)
  /\ code = 0 => Alive(call.id)
  /\ code = 128 => ~Alive(call.id)
  /\ procs' = IF code = 0
              THEN [procs EXCEPT ![call.id].state = "exited", ![call.id].code = 1,
                                 ![call.id].kills = @ + 1]
              ELSE procs
  /\ StopCommit(call.id, call.pid, call.startTime)
  /\ stopCalls' = stopCalls (-) SetToBag({call})
  /\ UNCHANGED <<platform, now, idleTicks, nextId>>

\* ------------------------------------------------------------- listScripts
ListEntry(info) ==
  [id |-> info.id, scriptPath |-> info.scriptPath, args |-> info.args,
   pid |-> info.pid, status |-> info.status,
   startTime |-> ToISOString(info.startTime),
   endTime |-> IF info.endTime /= Null THEN ToISOString(info.endTime) ELSE NoTime,
   duration |-> IF info.duration /= Null /\ info.duration /= 0
                THEN info.duration ELSE Null,
   workingDir |-> info.workingDir]

ListResult(tbl) ==
  LET scripts == [i \in 1..Len(tbl) |-> ListEntry(tbl[i])]
  IN [op |-> "listScripts", success |-> TRUE, count |-> Len(scripts),
      scripts |-> scripts]

\* mutant of ListScripts: the listing drops the entries that are not running
ListScriptsPurging ==
  /\ response' = ListResult(runningScripts)
  /\ runningScripts' = SelectSeq(runningScripts, LAMBDA info : info.status = "running")
  /\ UNCHANGED <<platform, now, idleTicks, nextId, timers, procs, stopCalls>>

ListScripts ==
  /\ response' = ListResult(runningScripts)
  /\ UNCHANGED <<platform, now, idleTicks, nextId, runningScripts, timers, procs, stopCalls>>

\* --------------------------------------------------------------- getStatus
\* statusCount[status]++ over the Map's values, for the three keys it holds
StatusCount(tbl, status) ==
  Cardinality({i \in 1..Len(tbl) : tbl[i].status = status})

StatusResult(tbl) ==
  [op |-> "getStatus", success |-> TRUE, uptime |-> now,
   timestamp |-> ToISOString(now),
   tasks |-> [total |-> Len(tbl),
              running |-> StatusCount(tbl, "running"),
              completed |-> StatusCount(tbl, "completed"),
              stopped |-> StatusCount(tbl, "stopped")]]

GetStatus ==
  /\ response' = StatusResult(runningScripts)
  /\ UNCHANGED <<platform, now, idleTicks, nextId, runningScripts, timers, procs, stopCalls>>

\* ------------------------------------------------------ child process events
\* the OS process ends (by itself or after a signal); its close event is queued
ProcExit(id, code) ==
  /\ Alive(id)
  /\ response' = NoResponse
  /\ procs' = [procs EXCEPT ![id].state = "exited", ![id].code = code]
  /\ UNCHANGED <<platform, now, idleTicks, nextId, runningScripts, timers, stopCalls>>

\* scriptInfo as the close handler leaves it
Completed(info, code) ==
  [info EXCEPT !.status = "completed", !.exitCode = code,
               !.endTime = now, !.duration = now - info.startTime]

\* childProcess.on('close', ...) of a tracked run
CloseTracked(id) ==
  /\ Exited(id)
  /\ procs[id].mode = "tracked"
  /\ response' = NoResponse
  /\ procs' = Reap(procs, id)
  /\ IF Has(id)
     THEN /\ runningScripts' = MapUpdate(runningScripts, id, Completed(Get(id), procs[id].code))
          /\ timers' = AddTimer(timers, id, "completed", CompletedGrace)
     ELSE UNCHANGED <<runningScripts, timers>>
  /\ UNCHANGED <<platform, now, idleTicks, nextId, stopCalls>>

\* childProcess.on('close', ...) of a oneTime run: a log line only
CloseOneTime(id) ==
  /\ Exited(id)
  /\ procs[id].mode = "oneTime"
  /\ response' = NoResponse
  /\ procs' = Reap(procs, id)
  /\ UNCHANGED <<platform, now, idleTicks, nextId, runningScripts, timers, stopCalls>>

\* scriptInfo after a data listener pushed `chunk` to one of its arrays
Pushed(info, stream, chunk) ==
  IF stream = "stdout"
  THEN [info EXCEPT !.stdout = Append(@, chunk)]
  ELSE [info EXCEPT !.stderr = Append(@, chunk)]

\* stdout/stderr 'data' listeners of a tracked run, dispatched before its
\* close event.  The arrays of an evicted task are reachable from nowhere but
\* the listeners themselves
OutputTracked(id, stream, chunk) ==
  /\ id \in DOMAIN procs
  /\ procs[id].mode = "tracked"
  /\ response' = NoResponse
  /\ IF Has(id)
     THEN /\ Len(Get(id).stdout) + Len(Get(id).stderr) < MaxChunks
          /\ runningScripts' = MapUpdate(runningScripts, id, Pushed(Get(id), stream, chunk))
     ELSE UNCHANGED runningScripts
  /\ UNCHANGED <<platform, now, idleTicks, nextId, timers, procs, stopCalls>>

\* stdout/stderr 'data' listeners of a oneTime run: a log line only
OutputOneTime(id, stream, chunk) ==
  /\ id \in DOMAIN procs
  /\ procs[id].mode = "oneTime"
  /\ response' = NoResponse
  /\ UNCHANGED <<platform, now, idleTicks, nextId, runningScripts, timers, procs, stopCalls>>

\* ---------------------------------------------------------- eviction timers
\* mutant of EvictionTimer: the callback deletes the oldest entry of the map,
\* not the entry of the id it was scheduled for
EvictionTimerOldest(t) ==
  /\ BagIn(t, timers)
  /\ t.deadline <= now
  /\ response' = NoResponse
  /\ timers' = timers (-) SetToBag({t})
  /\ runningScripts' = IF runningScripts = <<>> THEN <<>> ELSE Tail(runningScripts)
  /\ UNCHANGED <<platform, now, idleTicks, nextId, procs, stopCalls>>

\* the two setTimeout callbacks
EvictionTimer(t) ==
  /\ BagIn(t, timers)
  /\ t.deadline <= now
  /\ response' = NoResponse
  /\ timers' = timers (-) SetToBag({t})
  /\ IF t.kind = "completed"
     THEN IF Has(t.id) /\ Get(t.id).status = "completed"
          THEN runningScripts' = MapDelete(runningScripts, t.id)
          ELSE UNCHANGED runningScripts
     ELSE runningScripts' = MapDelete(runningScripts, t.id)
  /\ UNCHANGED <<platform, now, idleTicks, nextId, procs, stopCalls>>

\* time passes up to the next pending timer's deadline
TickToDeadline ==
  /\ timers /= EmptyBag
  /\ Min(TimerDeadlines) > now
  /\ response' = NoResponse
  /\ now' = Min(TimerDeadlines)
  /\ UNCHANGED <<platform, nextId, runningScripts, timers, procs, stopCalls, idleTicks>>

\* time passes by TickStep while nothing is scheduled
TickIdle ==
  /\ idleTicks < MaxIdleTicks
  /\ timers = EmptyBag /\ stopCalls = EmptyBag
  /\ response' = NoResponse
  /\ now' = now + TickStep
  /\ idleTicks' = idleTicks + 1
  /\ UNCHANGED <<platform, nextId, runningScripts, timers, procs, stopCalls>>

Init ==
  /\ platform \in Platforms
  /\ now = 0
  /\ nextId = 1
  /\ runningScripts = <<>>
  /\ timers = EmptyBag
  /\ procs = <<>>
  /\ stopCalls = EmptyBag
  /\ response = NoResponse
  /\ idleTicks = 0

Next ==
  \/ \E p \in ScriptPaths, a \in ArgValues, o \in BOOLEAN, r \in SpawnOutcomes : RunScript(p, a, o, r)
  \/ \E id \in CandidateIds : StopScript(id)
  \/ \E id \in CandidateIds : StopScriptBegin(id)
  \/ \E call \in BagToSet(stopCalls), c \in TaskkillCodes : StopScriptResume(call, c)
  \/ ListScripts
  \/ GetStatus
  \/ \E id \in CandidateIds, c \in ExitCodes : ProcExit(id, c)
  \/ \E id \in CandidateIds : CloseTracked(id)
  \/ \E id \in CandidateIds : CloseOneTime(id)
  \/ \E id \in CandidateIds, s \in Streams, c \in Chunks : OutputTracked(id, s, c)
  \/ \E id \in CandidateIds, s \in Streams, c \in Chunks : OutputOneTime(id, s, c)
  \/ \E t \in BagToSet(timers) : EvictionTimer(t)
  \/ TickToDeadline
  \/ TickIdle

Spec == Init /\ [][Next]_vars

\* Timers fire: the clock reaches every pending deadline, and a setTimeout
\* callback that is due runs.  Nothing else is assumed to happen.
TimersFire ==
  /\ WF_vars(TickToDeadline)
  /\ WF_vars(\E t \in BagToSet(timers) : EvictionTimer(t))

\* The calls and callbacks that write to the table, the timers or the
\* processes; the reads and the data listeners change none of them.
NextLive ==
  \/ \E p \in ScriptPaths, a \in ArgValues, o \in BOOLEAN, r \in SpawnOutcomes : RunScript(p, a, o, r)
  \/ \E id \in CandidateIds : StopScript(id)
  \/ \E id \in CandidateIds : StopScriptBegin(id)
  \/ \E call \in BagToSet(stopCalls), c \in TaskkillCodes : StopScriptResume(call, c)
  \/ \E id \in CandidateIds, c \in ExitCodes : ProcExit(id, c)
  \/ \E id \in CandidateIds : CloseTracked(id)
  \/ \E id \in CandidateIds : CloseOneTime(id)
  \/ \E t \in BagToSet(timers) : EvictionTimer(t)
  \/ TickToDeadline
  \/ TickIdle

SpecLive == Init /\ [][NextLive]_vars /\ TimersFire

\* ------------------------------------------------ the caller's references
\* scriptInfo.args is the array the caller passed to runScript, the very
\* array that the result's details.args and every listScripts entry's args
\* hand back: the caller who holds it pushes an element, and the array of
\* the table entry (and of the listeners' closure) is that same array.
\* Every other object a caller receives is built by the call that returns it.
PushedArg == <<"x">>

CallerPushesArg(id) ==
  /\ id \in DOMAIN procs \/ Has(id)
  /\ id \in DOMAIN procs => /\ procs[id].args.type = "array"
                             /\ Len(procs[id].args.items) < MaxArgsLen
  /\ Has(id) => Len(Get(id).args.items) < MaxArgsLen
  /\ procs' = [i \in DOMAIN procs |->
                IF i = id THEN [procs[i] EXCEPT !.args.items = Append(@, PushedArg)]
                ELSE procs[i]]
  /\ runningScripts' =
       IF Has(id)
       THEN MapUpdate(runningScripts, id,
                      [Get(id) EXCEPT !.args.items = Append(@, PushedArg)])
       ELSE runningScripts
  /\ response' = NoResponse
  /\ UNCHANGED <<platform, now, nextId, timers, stopCalls, idleTicks>>

NextAlias ==
  \/ \E p \in ScriptPaths, a \in ArgValues, o \in BOOLEAN, r \in SpawnOutcomes : RunScript(p, a, o, r)
  \/ \E id \in CandidateIds : StopScript(id)
  \/ \E id \in CandidateIds : StopScriptBegin(id)
  \/ \E call \in BagToSet(stopCalls), c \in TaskkillCodes : StopScriptResume(call, c)
  \/ ListScripts
  \/ \E id \in CandidateIds, c \in ExitCodes : ProcExit(id, c)
  \/ \E id \in CandidateIds : CloseTracked(id)
  \/ \E id \in CandidateIds : CloseOneTime(id)
  \/ \E t \in BagToSet(timers) : EvictionTimer(t)
  \/ TickToDeadline
  \/ TickIdle
  \/ \E id \in CandidateIds : CallerPushesArg(id)

SpecAlias == Init /\ [][NextAlias]_vars

\* ------------------------------------------- the second task manager version
\* Array.prototype.join(''): the chunks' characters, in order
RECURSIVE Join(_)
Join(chunks) == IF chunks = <<>> THEN <<>> ELSE Head(chunks) \o Join(Tail(chunks))

\* [scriptPath, ...args] throws inside the try block when args is not iterable
SpreadFailure ==
  [op |-> "runScript", success |-> FALSE, error |-> "args is not iterable"]

\* spawn('node', [scriptPath, ...args], {detached: oneTime}), whatever the
\* script path is
NewProcV2(id, scriptPath, args, oneTime) ==
  [NewProc(id, scriptPath, args, oneTime)
     EXCEPT !.command = NodeCommand,
            !.commandArgs = <<scriptPath>> \o args.items]

RunTrackedV2(id, scriptPath, args) ==
  /\ procs' = procs @@ (id :> NewProcV2(id, scriptPath, args, FALSE))
  /\ runningScripts' = Append(runningScripts, NewScriptInfo(id, scriptPath, args))
  /\ response' = RunResult(id, "tracked", scriptPath, args)

\* runScript; a oneTime call stays pending until the close event
RunScriptV2(scriptPath, args, oneTime, outcome) ==
  /\ nextId <= MaxTasks
  /\ nextId' = nextId + 1
  /\ IF args.type /= "array"
     THEN /\ response' = SpreadFailure
          /\ UNCHANGED <<runningScripts, procs, timers, stopCalls>>
     ELSE IF outcome = "throws"
     THEN /\ response' = RunFailure
          /\ UNCHANGED <<runningScripts, procs, timers, stopCalls>>
     ELSE IF outcome = "emitsError"
     THEN UncaughtException
     ELSE IF oneTime
     THEN /\ procs' = procs @@ (nextId :> NewProcV2(nextId, scriptPath, args, TRUE))
          /\ response' = NoResponse
          /\ UNCHANGED <<runningScripts, timers, stopCalls>>
     ELSE /\ RunTrackedV2(nextId, scriptPath, args)
          /\ UNCHANGED <<timers, stopCalls>>
  /\ UNCHANGED <<platform, now, idleTicks>>

\* what the close listener of a oneTime run resolves the call with
OneTimeResult(id, p) ==
  [op |-> "runScript", success |-> TRUE, id |-> id, mode |-> "oneTime",
   exitCode |-> p.code, duration |-> now - p.startTime,
   output |-> Join(p.stdout), error |-> Join(p.stderr),
   pid |-> p.pid, scriptPath |-> p.scriptPath, args |-> p.args,
   startTime |-> ToISOString(p.startTime), endTime |-> ToISOString(now)]

CloseOneTimeV2(id) ==
  /\ Exited(id)
  /\ procs[id].mode = "oneTime"
  /\ response' = OneTimeResult(id, procs[id])
  /\ procs' = Reap(procs, id)
  /\ UNCHANGED <<platform, now, idleTicks, nextId, runningScripts, timers, stopCalls>>

\* the data listeners of a oneTime run push to the closure's arrays
OutputOneTimeV2(id, stream, chunk) ==
  /\ id \in DOMAIN procs
  /\ procs[id].mode = "oneTime"
  /\ Len(procs[id].stdout) + Len(procs[id].stderr) < MaxChunks
  /\ response' = NoResponse
  /\ procs' = [procs EXCEPT ![id] = Pushed(@, stream, chunk)]
  /\ UNCHANGED <<platform, now, idleTicks, nextId, runningScripts, timers, stopCalls>>

KillFailure(id) ==
  [op |-> "stopScript", of |-> id, success |-> FALSE, error |-> "kill ESRCH"]

\* stopScript: process.kill is not guarded, its exception reaches the outer catch
StopScriptV2(id) ==
  /\ IF ~Has(id)
     THEN /\ response' = NotFound(id)
          /\ UNCHANGED <<runningScripts, timers, procs>>
     ELSE IF Get(id).status /= "running"
     THEN /\ response' = NotRunning(id, Get(id).status)
          /\ UNCHANGED <<runningScripts, timers, procs>>
     ELSE IF ~Alive(id)
     THEN /\ response' = KillFailure(id)
          /\ UNCHANGED <<runningScripts, timers, procs>>
     ELSE /\ procs' = Signal(procs, id)
          /\ StopCommit(id, Get(id).pid, Get(id).startTime)
  /\ UNCHANGED <<platform, now, idleTicks, nextId, stopCalls>>

InitV2 == Init /\ platform = "posix"

NextV2 ==
  \/ \E p \in ScriptPaths, a \in ArgValues, o \in BOOLEAN, r \in SpawnOutcomes : RunScriptV2(p, a, o, r)
  \/ \E id \in CandidateIds : StopScriptV2(id)
  \/ ListScripts
  \/ GetStatus
  \/ \E id \in CandidateIds, c \in ExitCodes : ProcExit(id, c)
  \/ \E id \in CandidateIds : CloseTracked(id)
  \/ \E id \in CandidateIds : CloseOneTimeV2(id)
  \/ \E id \in CandidateIds, s \in Streams, c \in Chunks : OutputTracked(id, s, c)
  \/ \E id \in CandidateIds, s \in Streams, c \in Chunks : OutputOneTimeV2(id, s, c)
  \/ \E t \in BagToSet(timers) : EvictionTimer(t)
  \/ TickToDeadline
  \/ TickIdle

SpecV2 == InitV2 /\ [][NextV2]_vars

\* ------------------------------------------------------ spawning, by suffix
\* runScript called with paths of every kind, and the children's exits
NextSpawn ==
  \/ \E p \in DispatchPaths, a \in ArgValues, o \in BOOLEAN, r \in SpawnOutcomes : RunScript(p, a, o, r)
  \/ \E id \in CandidateIds, c \in ExitCodes : ProcExit(id, c)
  \/ \E id \in CandidateIds : CloseTracked(id)
  \/ \E id \in CandidateIds : CloseOneTime(id)

SpecSpawn == Init /\ [][NextSpawn]_vars

NextSpawnV2 ==
  \/ \E p \in DispatchPaths, a \in ArgValues, o \in BOOLEAN, r \in SpawnOutcomes : RunScriptV2(p, a, o, r)
  \/ \E id \in CandidateIds, c \in ExitCodes : ProcExit(id, c)
  \/ \E id \in CandidateIds : CloseTracked(id)
  \/ \E id \in CandidateIds : CloseOneTimeV2(id)

SpecSpawnV2 == InitV2 /\ [][NextSpawnV2]_vars

\* ------------------------------------------------------------- HTTP routes
\* process.env.AUTH_USER || 'admin', process.env.AUTH_PASSWORD || 'password'
ExpectedUser == "admin"
ExpectedPassword == "password"

\* basicAuth(req): undefined, or the name and pass of the Authorization header
NoCredentials == [present |-> FALSE]
Credentials ==
  {NoCredentials} \cup
  {[present |-> TRUE, name |-> "admin", pass |-> "password"],
   [present |-> TRUE, name |-> "admin", pass |-> "guess"],
   [present |-> TRUE, name |-> "guest", pass |-> "password"]}

\* mutant of Authorized: the password is not compared
AuthorizedByName(credentials) ==
  /\ credentials.present
  /\ credentials.name = ExpectedUser

\* the negation of the auth middleware's condition
Authorized(credentials) ==
  /\ credentials.present
  /\ credentials.name = ExpectedUser
  /\ credentials.pass = ExpectedPassword

\* req.body of POST /api/scripts/run; the empty string stands for a missing
\* script
Bodies ==
  {[script |-> sc, args |-> JsArray(items), oneTime |-> o] :
     sc \in ScriptPaths \cup {<<>>}, items \in ArgLists, o \in BOOLEAN} \cup
  {[script |-> sc, args |-> JsNumber, oneTime |-> FALSE] : sc \in ScriptPaths}

Unauthorized(path) ==
  [op |-> "http", path |-> path, status |-> 401,
   challenge |-> "Basic realm=\"Task Runner API\"",
   body |-> [error |-> "Authentication required"]]

BadRequest ==
  [op |-> "http", path |-> "/api/scripts/run", status |-> 400,
   body |-> [error |-> "Script path is required"]]

HealthOk ==
  [op |-> "http", path |-> "/health", status |-> 200,
   body |-> [status |-> "ok", timestamp |-> ToISOString(now)]]

\* a reply that leaves the task manager alone
Reply(r) ==
  /\ response' = r
  /\ UNCHANGED <<platform, now, idleTicks, nextId, runningScripts, timers, procs, stopCalls>>

\* the status the /api handlers answer with: res.status(200).json(result), or
\* 500 from their catch; a call that is pending or ended in a crash has no answer
HttpStatus(r) ==
  CASE r.op = "http" -> r.status
    [] r.op = "rejected" -> 500
    [] r.op \in {"none", "crash"} -> Null
    [] OTHER -> 200

\* Every route below starts with app.use(auth): the middleware answers 401
\* itself or calls next(), which runs the route's handler.

\* POST /api/scripts/run: const { script, args = [] } = req.body;
\* runScript(script, args)
PostRun(credentials, body, outcome) ==
  IF ~Authorized(credentials)
  THEN Reply(Unauthorized("/api/scripts/run"))
  ELSE IF body.script = <<>>
  THEN Reply(BadRequest)
  ELSE RunScript(body.script, body.args, FALSE, outcome)

\* POST /api/scripts/stop/:id
PostStop(credentials, id) ==
  IF ~Authorized(credentials)
  THEN Reply(Unauthorized("/api/scripts/stop"))
  ELSE StopScript(id) \/ StopScriptBegin(id)

\* GET /api/scripts
GetScripts(credentials) ==
  IF ~Authorized(credentials)
  THEN Reply(Unauthorized("/api/scripts"))
  ELSE ListScripts

\* GET /api/status
GetStatusRoute(credentials) ==
  IF ~Authorized(credentials)
  THEN Reply(Unauthorized("/api/status"))
  ELSE GetStatus

\* mutant of GetHealth: the route is registered before app.use(auth)
GetHealthOpen(credentials) == Reply(HealthOk)

\* GET /health
GetHealth(credentials) ==
  IF ~Authorized(credentials)
  THEN Reply(Unauthorized("/health"))
  ELSE Reply(HealthOk)

\* The requests, and the callbacks of what they start.  The routes start
\* tracked runs only, and no route returns the output buffers, so the oneTime
\* and the data listeners are left out here.
NextHttp ==
  \/ \E c \in Credentials, b \in Bodies, r \in SpawnOutcomes : PostRun(c, b, r)
  \/ \E c \in Credentials, id \in CandidateIds : PostStop(c, id)
  \/ \E c \in Credentials : GetScripts(c)
  \/ \E c \in Credentials : GetStatusRoute(c)
  \/ \E c \in Credentials : GetHealth(c)
  \/ \E call \in BagToSet(stopCalls), c \in TaskkillCodes : StopScriptResume(call, c)
  \/ \E id \in CandidateIds, c \in ExitCodes : ProcExit(id, c)
  \/ \E id \in CandidateIds : CloseTracked(id)
  \/ \E t \in BagToSet(timers) : EvictionTimer(t)
  \/ TickToDeadline
  \/ TickIdle

SpecHttp == Init /\ [][NextHttp]_vars

\* =================================================================== claims
InTable(tbl, id) == \E i \in 1..Len(tbl) : tbl[i].id = id
Entry(tbl, id) == tbl[CHOOSE i \in 1..Len(tbl) : tbl[i].id = id]
HasTimer(bag, id, kind) == \E t \in BagToSet(bag) : t.id = id /\ t.kind = kind
\* a stopScript call that starts and settles within the step
StopCallStep(id) ==
  /\ response'.op = "stopScript"
  /\ response'.of = id
  /\ stopCalls' = stopCalls

\* C1: a task's status changes only running -> completed or running ->
\* stopped; a terminal status never changes while the task is in the table.
C1_StatusOnlyForward ==
  [][\A id \in CandidateIds :
       (InTable(runningScripts, id) /\ InTable(runningScripts', id)) =>
         LET before == Entry(runningScripts, id).status
             after == Entry(runningScripts', id).status
         IN \/ after = before
            \/ before = "running" /\ after \in {"completed", "stopped"}]_vars

\* C2: an entry leaves the table only at its eviction deadline: a completed one
\* exactly 60s after its completion, a stopped one exactly 5s after its stop.
C2_EvictedExactlyAtDeadline ==
  [][\A id \in CandidateIds :
       (InTable(runningScripts, id) /\ ~InTable(runningScripts', id)) =>
         LET info == Entry(runningScripts, id)
         IN \/ info.status = "completed" /\ now = info.endTime + CompletedGrace
            \/ info.status = "stopped" /\ now = info.endTime + StoppedGrace]_vars

\* C3: a tracked runScript that resolved with success:true resolved while its
\* process was still running, and listScripts called right then holds the
\* returned id in exactly one entry, with status running, and reports as count
\* the number of entries it returns.
C3_TrackedRunIsListed ==
  (response.op = "runScript" /\ response.success /\ response.mode = "tracked") =>
    LET listed == ListResult(runningScripts)
        hits == {i \in 1..Len(listed.scripts) : listed.scripts[i].id = response.id}
    IN /\ Alive(response.id)
       /\ Cardinality(hits) = 1
       /\ \A i \in hits : listed.scripts[i].status = "running"
       /\ listed.count = Len(listed.scripts)
       /\ listed.count = Len(runningScripts)

C3_Witness ==
  /\ response.op = "runScript" /\ response.success /\ response.mode = "tracked"
  /\ Len(runningScripts) = 2
  /\ runningScripts[1].status /= "running"

\* C4: a stopScript call on a running task always makes the transition, also
\* when the kill fails: the call returns success:true with the same id and the
\* task's pid, the task is stopped with endTime and duration set, and a 5s
\* eviction is scheduled.
C4_StopAlwaysCommits ==
  [][\A id \in CandidateIds :
       (/\ InTable(runningScripts, id)
        /\ Entry(runningScripts, id).status = "running"
        /\ response'.op = "stopScript"
        /\ response'.of = id) =>
         /\ response'.success
         /\ response'.id = id
         /\ response'.pid = Entry(runningScripts, id).pid
         /\ InTable(runningScripts', id)
         /\ Entry(runningScripts', id).status = "stopped"
         /\ Entry(runningScripts', id).endTime = now
         /\ Entry(runningScripts', id).duration = now - Entry(runningScripts, id).startTime
         /\ timers' = AddTimer(timers, id, "stopped", StoppedGrace)]_vars

\* C5: stopScript with an id that is not in the table returns success:false
\* with error 'Script not found' and changes neither the table nor the timers.
C5_StopUnknownId ==
  [][\A id \in CandidateIds :
       (~InTable(runningScripts, id) /\ StopCallStep(id)) =>
         /\ ~response'.success
         /\ response'.error = "Script not found"
         /\ runningScripts' = runningScripts
         /\ timers' = timers]_vars

C5_Witness ==
  /\ response.op = "stopScript"
  /\ ~response.success
  /\ response.error = "Script not found"
  /\ response.of < nextId
  /\ response.of \notin DOMAIN procs
  /\ timers /= EmptyBag

\* C6: stopScript on a task that is in the table as completed or stopped
\* returns success:false with error 'Script not running', sends no signal,
\* leaves the task as it is and schedules no eviction.
C6_StopTerminalTask ==
  [][\A id \in CandidateIds :
       (/\ InTable(runningScripts, id)
        /\ Entry(runningScripts, id).status \in {"completed", "stopped"}
        /\ StopCallStep(id)) =>
         /\ ~response'.success
         /\ response'.error = "Script not running"
         /\ procs' = procs
         /\ runningScripts' = runningScripts
         /\ timers' = timers]_vars

C6_Witness ==
  /\ response.op = "stopScript"
  /\ ~response.success
  /\ response.error = "Script not running"
  /\ InTable(runningScripts, response.of)
  /\ Entry(runningScripts, response.of).status = "stopped"
  /\ Alive(response.of)

\* C7: when a second stopScript call follows a successful one on the same task
\* within the 5s before its eviction, it returns success:true, 'Script not
\* running' or 'Script not found', and afterwards the task is stopped or
\* evicted.
C7_SecondStop ==
  [][\A id \in CandidateIds :
       (/\ HasTimer(timers, id, "stopped")
        /\ response'.op = "stopScript"
        /\ response'.of = id) =>
         /\ \/ response'.success
            \/ response'.error \in {"Script not running", "Script not found"}
         /\ \/ ~InTable(runningScripts', id)
            \/ Entry(runningScripts', id).status = "stopped"]_vars

\* C8: getStatus reports as tasks.total the number of table entries, as
\* running, completed and stopped the number of entries with that status, and
\* these three add up to the total.
C8_StatusCounts ==
  LET tasks == StatusResult(runningScripts).tasks
      With(status) == Len(SelectSeq(runningScripts, LAMBDA info : info.status = status))
  IN /\ tasks.total = Len(runningScripts)
     /\ tasks.running = With("running")
     /\ tasks.completed = With("completed")
     /\ tasks.stopped = With("stopped")
     /\ tasks.running + tasks.completed + tasks.stopped = tasks.total
     /\ response.op = "getStatus" => response.tasks = tasks

C8_Witness ==
  /\ response.op = "getStatus"
  /\ response.tasks.total = 2
  /\ response.tasks.completed = 1
  /\ response.tasks.stopped = 1

\* the ids of the oneTime processes that exist
OneTimeIds == {id \in DOMAIN procs : procs[id].mode = "oneTime"}

\* C9: a oneTime runScript adds no table entry; an id enters the table only in
\* the tracked runScript call that issues it; while a oneTime process exists its
\* id is in no listScripts result, stopScript on it answers 'Script not found',
\* and its exit and close leave the table unchanged.
C9_OneTimeNeverInTable ==
  /\ [](\A id \in OneTimeIds :
          /\ ~InTable(runningScripts, id)
          /\ \A i \in 1..ListResult(runningScripts).count :
               ListResult(runningScripts).scripts[i].id /= id
          /\ StatusResult(runningScripts).tasks.total
               = Cardinality({x \in CandidateIds \ OneTimeIds : InTable(runningScripts, x)})
          /\ (response.op = "stopScript" /\ response.of = id)
               => (~response.success /\ response.error = "Script not found"))
  /\ [][/\ \A id \in CandidateIds :
             (~InTable(runningScripts, id) /\ InTable(runningScripts', id)) =>
               /\ id = nextId
               /\ response'.op = "runScript"
               /\ response'.mode = "tracked"
               /\ response'.id = id
        /\ (response'.op = "runScript" /\ response'.success /\ response'.mode = "oneTime")
             => runningScripts' = runningScripts
        /\ \A id \in OneTimeIds :
             (/\ id \notin DOMAIN procs' \/ procs'[id] /= procs[id]
              /\ response' /= Crashed)
               => runningScripts' = runningScripts]_vars

C9_Witness ==
  /\ \E id \in OneTimeIds : procs[id].state = "exited"
  /\ Len(runningScripts) = 1
  /\ response.op = "listScripts"

C11_OneTimeReturnsOutcome ==
  [][\A id \in CandidateIds :
       (/\ response'.op = "runScript"
        /\ response'.success
        /\ response'.mode = "oneTime"
        /\ response'.id = id) =>
         /\ Exited(id)
         /\ {"exitCode", "output", "error"} \subseteq DOMAIN response'
         /\ response'.exitCode = procs[id].code
         /\ response'.output = Join(procs[id].stdout)
         /\ response'.error = Join(procs[id].stderr)]_vars

\* C12: every step that ends a call of runScript, stopScript, listScripts or
\* getStatus settles it with a result object that has a boolean success field:
\* no call rejects and none ends in an exception.
ManagerOps == {"runScript", "stopScript", "listScripts", "getStatus"}
C12_EveryCallSettles ==
  response.op \in ManagerOps \cup {"rejected", "crash"} =>
    /\ response.op \in ManagerOps
    /\ "success" \in DOMAIN response
    /\ response.success \in BOOLEAN

\* C13: when the spawn fails in a runScript call, tracked or oneTime, the call
\* resolves with success:false and the failure's message as error, no process
\* and no task is created, and the table and the timers are as before the call.
C13_SpawnFailureIsReported ==
  [][\A p \in ScriptPaths, a \in ArgValues, o \in BOOLEAN, r \in SpawnOutcomes \ {"ok"} :
       (a.type = "array" /\ RunScript(p, a, o, r)) =>
         /\ response'.op = "runScript"
         /\ ~response'.success
         /\ response'.error = "spawn error"
         /\ procs' = procs
         /\ runningScripts' = runningScripts
         /\ timers' = timers]_vars

\* the credentials that match the configured user and password
ValidCredentials == [present |-> TRUE, name |-> ExpectedUser, pass |-> ExpectedPassword]

\* C14: an authenticated POST /api/scripts/run with a script and a list of
\* args whose spawn succeeds runs the script in the mode its body asks for:
\* with oneTime true the answer is the oneTime result and the table is
\* unchanged, with oneTime false the answer is the tracked result and the table
\* has one entry more.
C14_RunRouteHonoursOneTime ==
  [][\A b \in Bodies :
       (/\ b.script /= <<>>
        /\ b.args.type = "array"
        /\ PostRun(ValidCredentials, b, "ok")) =>
         /\ HttpStatus(response') = 200
         /\ response'.op = "runScript"
         /\ response'.success
         /\ response'.mode = (IF b.oneTime THEN "oneTime" ELSE "tracked")
         /\ b.oneTime => runningScripts' = runningScripts
         /\ ~b.oneTime => Len(runningScripts') = Len(runningScripts) + 1]_vars

\* C15 (as stated): GET /health is answered 200 with status 'ok' whatever
\* credentials the request carries.
C15_HealthUnauthenticated ==
  [][\A c \in Credentials :
       GetHealth(c) => (response' = HealthOk /\ HttpStatus(response') = 200)]_vars

\* C15 (amended): GET /health is behind the auth middleware like every other
\* endpoint: with credentials that are absent or do not match it is answered
\* 401 with the challenge, with matching credentials 200 with status 'ok'; in
\* both cases the task manager is left alone.
C15_HealthBehindAuth ==
  [][\A c \in Credentials :
       GetHealth(c) =>
         /\ c /= ValidCredentials =>
              (response' = Unauthorized("/health") /\ HttpStatus(response') = 401)
         /\ c = ValidCredentials =>
              (response' = HealthOk /\ HttpStatus(response') = 200)
         /\ UNCHANGED <<runningScripts, procs, timers, stopCalls, nextId>>]_vars

C15_Witness ==
  /\ response = Unauthorized("/health")
  /\ Len(runningScripts) = 1
  /\ runningScripts[1].status = "running"

\* C16: a request to an /api endpoint whose credentials are absent or do not
\* match the configured user and password is answered 401 with the challenge
\* and does not reach the task manager: no process is spawned, no signal is
\* sent, no call is left suspended, and the table, the timers and the issued
\* ids are unchanged.  In every state, no such request can be answered
\* otherwise.
Denied(path) ==
  /\ response' = Unauthorized(path)
  /\ HttpStatus(response') = 401
  /\ response'.challenge /= ""
  /\ UNCHANGED <<runningScripts, procs, timers, stopCalls, nextId>>
C16_UnauthorizedNeverReachesManager ==
  \A c \in Credentials \ {ValidCredentials} :
    /\ \A b \in Bodies, r \in SpawnOutcomes :
         ~ENABLED (PostRun(c, b, r) /\ ~Denied("/api/scripts/run"))
    /\ \A id \in CandidateIds :
         ~ENABLED (PostStop(c, id) /\ ~Denied("/api/scripts/stop"))
    /\ ~ENABLED (GetScripts(c) /\ ~Denied("/api/scripts"))
    /\ ~ENABLED (GetStatusRoute(c) /\ ~Denied("/api/status"))

C16_Witness ==
  /\ response = Unauthorized("/api/scripts/stop")
  /\ Len(runningScripts) = 2
  /\ \E i \in 1..2 : runningScripts[i].status = "running" /\ Alive(runningScripts[i].id)

\* C17: listScripts returns one entry per table entry, in order, with the
\* task's id, pid, status, startTime and endTime and without the stdout and
\* stderr buffers; a completed or stopped entry reports as duration its
\* endTime minus its startTime, also when that is 0; a running entry reports
\* endTime and duration as null.
C17_ListedFields ==
  LET listed == ListResult(runningScripts).scripts
  IN /\ Len(listed) = Len(runningScripts)
     /\ \A i \in 1..Len(runningScripts) :
          LET info == runningScripts[i]
              e == listed[i]
          IN /\ e.id = info.id /\ e.pid = info.pid /\ e.status = info.status
             /\ e.startTime = ToISOString(info.startTime)
             /\ DOMAIN e \cap {"stdout", "stderr"} = {}
             /\ info.status \in {"completed", "stopped"} =>
                  /\ e.endTime = ToISOString(info.endTime)
                  /\ e.duration = info.endTime - info.startTime
             /\ info.status = "running" =>
                  /\ e.endTime = NoTime
                  /\ e.duration = Null

\* C18: listScripts and getStatus can be called in every state, always return
\* success:true, and change neither the table's entries nor the pending
\* timers, the processes, the suspended calls or the issued ids.
C18_ReadsArePure ==
  /\ [](ENABLED ListScripts /\ ENABLED GetStatus)
  /\ [][response'.op \in {"listScripts", "getStatus"} =>
          /\ response'.success
          /\ runningScripts' = runningScripts
          /\ timers' = timers
          /\ procs' = procs
          /\ stopCalls' = stopCalls
          /\ nextId' = nextId]_vars

C18_Witness ==
  /\ response.op = "listScripts"
  /\ response.count = 2
  /\ \E i \in 1..2 : response.scripts[i].status /= "running"
  /\ timers /= EmptyBag
  /\ stopCalls /= EmptyBag

\* C19: while a stopScript call is between its check that the status is
\* running and its write of status stopped, no close callback of that task,
\* no eviction timer of that task and no other stopScript call on that task
\* runs, on either platform.
C19_StopIsAtomic ==
  [][\A call \in BagToSet(stopCalls) :
       /\ ~CloseTracked(call.id)
       /\ ~(\E t \in BagToSet(timers) : t.id = call.id /\ EvictionTimer(t))
       /\ ~StopScriptBegin(call.id)
       /\ ~StopScript(call.id)]_vars

\* C20: when timers fire, every task in the table with status completed or
\* stopped is eventually removed from the table, whatever stopScript calls,
\* close callbacks and timers are interleaved with it.
C20_TerminalTasksAreEvicted ==
  \A id \in CandidateIds :
    (InTable(runningScripts, id)
       /\ Entry(runningScripts, id).status \in {"completed", "stopped"})
      ~> ~InTable(runningScripts, id)

C20_Witness ==
  /\ now = CompletedGrace
  /\ nextId = MaxTasks + 1
  /\ runningScripts = <<>>
  /\ timers = EmptyBag
  /\ response = NoResponse
\* C21: the Task Table is never exposed by reference: when a caller mutates a
\* value it received from runScript or listScripts, or the args list it passed
\* to runScript, what listScripts reports for every entry stays what it was.
C21_TableNotAliased ==
  [][\A id \in CandidateIds :
       CallerPushesArg(id) =>
         ListResult(runningScripts').scripts = ListResult(runningScripts).scripts]_vars

Spawned == DOMAIN procs' \ DOMAIN procs
SpawnedAsSpecified(p) ==
  /\ IF EndsWith(p.scriptPath, <<".", "j", "s">>)
     THEN /\ p.command = <<"n", "o", "d", "e">>
          /\ p.commandArgs = <<p.scriptPath>> \o p.args.items
     ELSE IF EndsWith(p.scriptPath, <<".", "b", "a", "t">>)
     THEN /\ p.command = <<"c", "m", "d">>
          /\ p.commandArgs = << <<"/", "c">>, p.scriptPath >> \o p.args.items
     ELSE /\ p.command = p.scriptPath
          /\ p.commandArgs = p.args.items
  /\ p.detached = (p.mode = "oneTime")

\* C22: runScript calls the spawner exactly once per invocation: 'node' with
\* [scriptPath, ...args] for a '.js' path, 'cmd' with ['/c', scriptPath,
\* ...args] for a '.bat' path, the script path itself with args for any other
\* path; and the detached flag equals the oneTime option.
C22_SpawnBySuffix ==
  [][/\ Cardinality(Spawned) <= 1
     /\ \A id \in Spawned : SpawnedAsSpecified(procs'[id])
     /\ (/\ nextId' = nextId + 1
         /\ response'.op \in {"runScript", "none"}
         /\ response'.op = "runScript" => response'.success)
        => Spawned = {nextId}]_vars

\* an entry has an endTime exactly when it is not running
EndTimeIffTerminal ==
  \A i \in 1..Len(runningScripts) :
    (runningScripts[i].endTime /= Null) <=> (runningScripts[i].status /= "running")

\* endTime and duration, once set, stay as they are while the entry is there
EndTimeFrozen ==
  \A id \in CandidateIds :
    (/\ InTable(runningScripts, id)
     /\ InTable(runningScripts', id)
     /\ Entry(runningScripts, id).endTime /= Null) =>
      /\ Entry(runningScripts', id).endTime = Entry(runningScripts, id).endTime
      /\ Entry(runningScripts', id).duration = Entry(runningScripts, id).duration

\* what a successful stopScript returns is what listScripts reports
StopResultIsListed ==
  \A id \in CandidateIds :
    (/\ response'.op = "stopScript"
     /\ response'.of = id
     /\ response'.success
     /\ InTable(runningScripts', id)) =>
      LET listed == ListEntry(Entry(runningScripts', id))
      IN /\ listed.endTime = response'.stopTime
         /\ listed.duration = response'.duration

\* C23: a task in the table has an endTime if and only if its status is not
\* running; endTime and duration, once set, never change while the task is in
\* the table; so the stopTime and duration a successful stopScript returns are
\* what listScripts reports for the task until it is evicted.
C23_EndTimeSetOnce ==
  [][EndTimeIffTerminal' /\ EndTimeFrozen /\ StopResultIsListed]_vars

\* a callback of task id that can still fire after the task left the table
LateCallback(id) ==
  \/ CloseTracked(id)
  \/ \E st \in Streams, c \in Chunks : OutputTracked(id, st, c)
  \/ \E t \in BagToSet(timers) : t.id = id /\ EvictionTimer(t)

\* C24: once a task has been evicted its id never appears in the table again:
\* an exit callback, output callback or leftover eviction timer that fires for
\* an evicted task leaves the table unchanged, and an eviction timer never
\* removes an entry other than that of the task it was scheduled for.
C24_EvictedStaysOut ==
  [][/\ \A id \in CandidateIds :
          (id < nextId /\ ~InTable(runningScripts, id)) =>
            /\ ~InTable(runningScripts', id)
            /\ LateCallback(id) => runningScripts' = runningScripts
     /\ \A t \in BagToSet(timers) :
          EvictionTimer(t) =>
            \A id \in CandidateIds \ {t.id} :
              InTable(runningScripts, id) =>
                /\ InTable(runningScripts', id)
                /\ Entry(runningScripts', id) = Entry(runningScripts, id)]_vars

\* task 1 was stopped at time 0 and evicted 5s later, while task 2, started
\* at time 0 as well, stayed; the close event of task 1 came after its
\* eviction (an earlier one would have left a 60s timer pending)
C24_Witness ==
  /\ nextId = 3
  /\ now = StoppedGrace
  /\ timers = EmptyBag
  /\ DOMAIN procs = {2}
  /\ Len(runningScripts) = 1
  /\ runningScripts[1].id = 2
  /\ runningScripts[1].status = "running"
  /\ runningScripts[1].startTime = 0

\* a stopScript call, close or data callback, or eviction timer of task a
OperationOn(a) ==
  \/ StopScript(a)
  \/ StopScriptBegin(a)
  \/ \E call \in BagToSet(stopCalls), c \in TaskkillCodes :
       call.id = a /\ StopScriptResume(call, c)
  \/ CloseTracked(a)
  \/ \E st \in Streams, c \in Chunks : OutputTracked(a, st, c)
  \/ \E t \in BagToSet(timers) : t.id = a /\ EvictionTimer(t)

\* C25: operations on one task do not affect any other task: a stopScript
\* call, exit callback, output callback or eviction timer of task a leaves
\* the entry of every other task b (its presence in the table, status,
\* endTime, duration and captured output) unchanged, in every interleaving.
C25_TasksAreIsolated ==
  [][\A a \in CandidateIds :
       OperationOn(a) =>
         \A b \in CandidateIds \ {a} :
           /\ InTable(runningScripts', b) <=> InTable(runningScripts, b)
           /\ InTable(runningScripts, b) =>
                Entry(runningScripts', b) = Entry(runningScripts, b)]_vars

\* task 1 has just been stopped while task 2, with captured output, runs on
C25_Witness ==
  /\ response.op = "stopScript"
  /\ response.success
  /\ response.of = 1
  /\ Len(runningScripts) = 2
  /\ Entry(runningScripts, 1).status = "stopped"
  /\ Entry(runningScripts, 2).status = "running"
  /\ Entry(runningScripts, 2).stdout /= <<>>

====
